---- MODULE Spec2Model ----
(***************************************************************************)
(* DarkNet graph assembly (tensorflow_/models/darknet.py).                 *)
(*                                                                         *)
(* The model follows one caller through get_darknet() and the callable it  *)
(* returns, or through a direct call of darknet() with a channel table of  *)
(* its own.  Every primitive operation the code emits is appended to       *)
(* `graph` in emission order, together with its scope name, its channel    *)
(* counts, its kernel and the spatial extent it consumes and produces.     *)
(***************************************************************************)
EXTENDS Integers, Sequences, FiniteSets, TLC

\* ---------------------------------------------------------------- bounds
MaxStages == 2
MaxUnits == 2
MaxCalls == 2

\* ------------------------------------------------------ program constants
DefaultInChannels == 3
DefaultClasses == 1000
PoolSize == 2
PoolStrides == 2
AvgPoolStrides == 1
TestInputSize == 224
TestBatch == 1
Conv2dDefaultPadding == 0
Conv2dDefaultUseBias == TRUE

\* ----------------------------------------------------------------- inputs
None == "<None>"
Versions == {"ref", "tiny", "19", "53", "resnet"}
ModelNames == {None, "", "darknet"}
InputSizes == {TestInputSize, 256}
KwInChannels == {DefaultInChannels, 1}
KwClasses == {DefaultClasses, 10}
DirectAvgPoolSize == 7
ChanVals == {1, 2}

StageSeqs == UNION {[1..n -> ChanVals] : n \in 1..MaxUnits}
ChannelTables == UNION {[1..s -> StageSeqs] : s \in 1..MaxStages}

\* ------------------------------------------------------------ formatting
DigitStr(d) ==
    CASE d = 0 -> "0" [] d = 1 -> "1" [] d = 2 -> "2" [] d = 3 -> "3"
      [] d = 4 -> "4" [] d = 5 -> "5" [] d = 6 -> "6" [] d = 7 -> "7"
      [] d = 8 -> "8" [] d = 9 -> "9"

RECURSIVE Dec(_)
Dec(n) == IF n < 10 THEN DigitStr(n) ELSE Dec(n \div 10) \o DigitStr(n % 10)

\* variant: the unit index is dropped from the scope name
UnitName_StageOnly(i, j) == "features/stage" \o Dec(i + 1) \o "/unit" \o Dec(i + 1)

\* "features/stage{}/unit{}".format(i + 1, j + 1), i and j 0-based
UnitName(i, j) == "features/stage" \o Dec(i + 1) \o "/unit" \o Dec(j + 1)

\* "features/pool{}".format(i + 1)
PoolName(i) == "features/pool" \o Dec(i + 1)

\* ------------------------------------------------- primitive operations
ConvParams(inC, outC, k, bias) == inC * outC * k * k + (IF bias THEN outC ELSE 0)
BnParams(outC) == 2 * outC
ConvOut(size, k, pad) == size + 2 * pad - k + 1
MaxPoolOut(size) == (size - PoolSize) \div PoolStrides + 1
AvgPoolOut(size, pool) == (size - pool) \div AvgPoolStrides + 1

Op(kind, name, stage, unit, inC, outC, k, pad, bias, inSize, outSize) ==
    [kind |-> kind, name |-> name, stage |-> stage, unit |-> unit,
     inC |-> inC, outC |-> outC, k |-> k, pad |-> pad, bias |-> bias,
     inSize |-> inSize, outSize |-> outSize]

\* ------------------------------------------------------------ conv blocks
\* conv2d (no bias) + batchnorm + leaky_relu, named name/conv, name/bn, name/activ
dark_conv(size, inC, outC, k, pad, name, stage, unit) ==
    LET out == ConvOut(size, k, pad) IN
    << Op("conv2d", name \o "/conv", stage, unit, inC, outC, k, pad, FALSE, size, out),
       Op("batchnorm", name \o "/bn", stage, unit, outC, outC, 0, 0, FALSE, out, out),
       Op("leaky_relu", name \o "/activ", stage, unit, outC, outC, 0, 0, FALSE, out, out) >>

dark_conv1x1(size, inC, outC, name, stage, unit) ==
    dark_conv(size, inC, outC, 1, 0, name, stage, unit)

\* variant: the 3x3 block without padding
dark_conv3x3_NoPad(size, inC, outC, name, stage, unit) ==
    dark_conv(size, inC, outC, 3, 0, name, stage, unit)

dark_conv3x3(size, inC, outC, name, stage, unit) ==
    dark_conv(size, inC, outC, 3, 1, name, stage, unit)

dark_convYxY(size, inC, outC, pointwise, name, stage, unit) ==
    IF pointwise
    THEN dark_conv1x1(size, inC, outC, name, stage, unit)
    ELSE dark_conv3x3(size, inC, outC, name, stage, unit)

\* Python's ^ on two booleans
Xor(a, b) == a # b

\* variant: the `not` is dropped, so the parity is inverted
Pointwise_Inverted(n, j, odd_pointwise) ==
    (n > 1) /\ Xor((j + 1) % 2 = 1, odd_pointwise)

\* variant: the stage length is not looked at
Pointwise_NoLen(n, j, odd_pointwise) ==
    ~ Xor((j + 1) % 2 = 1, odd_pointwise)

\* (len(channels_per_stage) > 1) and not(((j + 1) % 2 == 1) ^ odd_pointwise)
Pointwise(n, j, odd_pointwise) ==
    (n > 1) /\ ~ Xor((j + 1) % 2 = 1, odd_pointwise)

\* variant: the running in_channels is never updated
NextInChannels_Stale(inC, outC) == inC

\* in_channels = out_channels
NextInChannels(inC, outC) == outC

\* variant: a pool follows every stage, the last one included
PoolAfter_Always(i, nStages) == TRUE

\* if i != len(channels) - 1
PoolAfter(i, nStages) == i # nStages - 1

\* --------------------------------------------------------------- presets
RefChannels == << <<16>>, <<32>>, <<64>>, <<128>>, <<256>>, <<512>>, <<1024>> >>
TinyChannels == << <<16>>, <<32>>, <<16, 128, 16, 128>>, <<32, 256, 32, 256>>,
                   <<64, 512, 64, 512, 128>> >>
D19Channels == << <<32>>, <<64>>, <<128, 64, 128>>, <<256, 128, 256>>,
                  <<512, 256, 512, 256, 512>>, <<1024, 512, 1024, 512, 1024>> >>

\* variant: the tiny preset with the odd_pointwise flag of the other two
Preset_TinyEven(version) ==
    IF version = "ref"
    THEN [ok |-> TRUE, channels |-> RefChannels, odd_pointwise |-> FALSE,
          avg_pool_size |-> 3, cls_activ |-> TRUE]
    ELSE IF version = "tiny"
    THEN [ok |-> TRUE, channels |-> TinyChannels, odd_pointwise |-> FALSE,
          avg_pool_size |-> 14, cls_activ |-> FALSE]
    ELSE IF version = "19"
    THEN [ok |-> TRUE, channels |-> D19Channels, odd_pointwise |-> FALSE,
          avg_pool_size |-> 7, cls_activ |-> FALSE]
    ELSE [ok |-> FALSE, channels |-> << >>, odd_pointwise |-> FALSE,
          avg_pool_size |-> 0, cls_activ |-> FALSE]

\* variant: the last elif became the else branch, nothing raises
Preset_ElseIs19(version) ==
    IF version = "ref"
    THEN [ok |-> TRUE, channels |-> RefChannels, odd_pointwise |-> FALSE,
          avg_pool_size |-> 3, cls_activ |-> TRUE]
    ELSE IF version = "tiny"
    THEN [ok |-> TRUE, channels |-> TinyChannels, odd_pointwise |-> TRUE,
          avg_pool_size |-> 14, cls_activ |-> FALSE]
    ELSE [ok |-> TRUE, channels |-> D19Channels, odd_pointwise |-> FALSE,
          avg_pool_size |-> 7, cls_activ |-> FALSE]

\* the if / elif / else chain of get_darknet; ok = FALSE is the raising branch
Preset(version) ==
    IF version = "ref"
    THEN [ok |-> TRUE, channels |-> RefChannels, odd_pointwise |-> FALSE,
          avg_pool_size |-> 3, cls_activ |-> TRUE]
    ELSE IF version = "tiny"
    THEN [ok |-> TRUE, channels |-> TinyChannels, odd_pointwise |-> TRUE,
          avg_pool_size |-> 14, cls_activ |-> FALSE]
    ELSE IF version = "19"
    THEN [ok |-> TRUE, channels |-> D19Channels, odd_pointwise |-> FALSE,
          avg_pool_size |-> 7, cls_activ |-> FALSE]
    ELSE [ok |-> FALSE, channels |-> << >>, odd_pointwise |-> FALSE,
          avg_pool_size |-> 0, cls_activ |-> FALSE]

\* variant: only None counts as a missing name, the empty string passes
MissingModelName_NoneOnly(pretrained, model_name) ==
    pretrained /\ (model_name = None)

\* pretrained and ((model_name is None) or (not model_name))
MissingModelName(pretrained, model_name) ==
    pretrained /\ ((model_name = None) \/ (model_name = ""))

\* variant: the weights are downloaded whatever pretrained says
ShouldDownload_Always(pretrained) == TRUE

\* if pretrained: download_model(...)
ShouldDownload(pretrained) == pretrained

\* ------------------------------------------------------------------ state
VARIABLES
    pc,          \* position of the caller
    caller,      \* "none", "get_darknet" or "direct"
    args,        \* the arguments get_darknet was called with
    err,         \* the exception raised, "" when none
    closure,     \* << >> or <<defaults captured by net_lambda>>
    cfg,         \* the arguments of the running darknet() call
    i, j,        \* 0-based loop indices of darknet()
    in_channels, \* the running in_channels of darknet()
    size,        \* spatial extent (height = width) of the running tensor x
    shape,       \* shape of the returned tensor, << >> before the return
    graph,       \* operations emitted into the current graph, in order
    params,      \* trainable parameters registered in the current graph
    downloads,   \* download_model calls since get_darknet was entered
    calls,       \* invocations of the callable so far
    prevNames    \* << >> or <<scope names of the previous finished assembly>>

vars == <<pc, caller, args, err, closure, cfg, i, j, in_channels, size, shape,
          graph, params, downloads, calls, prevNames>>

NoArgs == [version |-> "-", model_name |-> None, pretrained |-> FALSE]
NoCfg == [channels |-> << >>, odd_pointwise |-> FALSE, avg_pool_size |-> 0,
          cls_activ |-> FALSE, in_channels |-> 0, classes |-> 0]

Init ==
    /\ pc = "idle"
    /\ caller = "none"
    /\ args = NoArgs
    /\ err = ""
    /\ closure = << >>
    /\ cfg = NoCfg
    /\ i = 0
    /\ j = 0
    /\ in_channels = 0
    /\ size = 0
    /\ shape = << >>
    /\ graph = << >>
    /\ params = 0
    /\ downloads = 0
    /\ calls = 0
    /\ prevNames = << >>

\* the scope names written by a graph, in order (flatten and download_model
\* are called without a name)
Names(g) ==
    LET named == SelectSeq(g, LAMBDA o : o.name # "") IN
    [k \in 1..Len(named) |-> named[k].name]

\* ---------------------------------------------------------------- actions

\* get_darknet(version, model_name, pretrained, **kwargs)
GetDarknet(version, model_name, pretrained, kw) ==
    /\ pc = "idle"
    /\ caller' = "get_darknet"
    /\ args' = [version |-> version, model_name |-> model_name,
                pretrained |-> pretrained]
    /\ LET p == Preset(version) IN
       IF ~ p.ok
       THEN /\ pc' = "raised"
            /\ err' = "ValueError: version"
            /\ closure' = << >>
       ELSE IF MissingModelName(pretrained, model_name)
       THEN /\ pc' = "raised"
            /\ err' = "ValueError: model_name"
            /\ closure' = << >>
       ELSE /\ pc' = "ready"
            /\ err' = ""
            /\ closure' = << [channels |-> p.channels,
                             odd_pointwise |-> p.odd_pointwise,
                             avg_pool_size |-> p.avg_pool_size,
                             cls_activ |-> p.cls_activ,
                             pretrained |-> pretrained,
                             model_name |-> model_name,
                             kwargs |-> kw] >>
    /\ UNCHANGED <<cfg, i, j, in_channels, size, shape, graph, params,
                   downloads, calls, prevNames>>

\* entry of darknet(): the loop starts at the first unit of the first stage
EnterDarknet(c, x) ==
    /\ cfg' = c
    /\ i' = 0
    /\ j' = 0
    /\ in_channels' = c.in_channels
    /\ size' = x
    /\ shape' = << >>
    /\ pc' = "loop"

\* net(x): net_lambda calls darknet() with the captured defaults and kwargs
NetLambda(x) ==
    /\ pc = "ready"
    /\ calls < MaxCalls
    /\ calls' = calls + 1
    /\ LET cl == closure[1] IN
       EnterDarknet([channels |-> cl.channels,
                     odd_pointwise |-> cl.odd_pointwise,
                     avg_pool_size |-> cl.avg_pool_size,
                     cls_activ |-> cl.cls_activ,
                     in_channels |-> cl.kwargs.in_channels,
                     classes |-> cl.kwargs.classes], x)
    /\ UNCHANGED <<caller, args, err, closure, graph, params, downloads, prevNames>>

\* darknet(x, channels, odd_pointwise, avg_pool_size, cls_activ) called directly
DarknetDirect(channels, odd_pointwise, cls_activ) ==
    /\ pc = "idle"
    /\ caller' = "direct"
    /\ calls' = calls + 1
    /\ EnterDarknet([channels |-> channels,
                     odd_pointwise |-> odd_pointwise,
                     avg_pool_size |-> DirectAvgPoolSize,
                     cls_activ |-> cls_activ,
                     in_channels |-> DefaultInChannels,
                     classes |-> DefaultClasses], TestInputSize)
    /\ UNCHANGED <<args, err, closure, graph, params, downloads, prevNames>>

\* one iteration of the inner loop: unit j of stage i
Unit ==
    /\ pc = "loop"
    /\ LET stage == cfg.channels[i + 1]
           out_channels == stage[j + 1]
           ops == dark_convYxY(size, in_channels, out_channels,
                               Pointwise(Len(stage), j, cfg.odd_pointwise),
                               UnitName(i, j), i + 1, j + 1)
       IN /\ graph' = graph \o ops
          /\ params' = params + ConvParams(in_channels, out_channels, ops[1].k, FALSE)
                              + BnParams(out_channels)
          /\ size' = ops[3].outSize
          /\ in_channels' = NextInChannels(in_channels, out_channels)
          /\ IF j + 1 < Len(stage)
             THEN /\ j' = j + 1
                  /\ pc' = "loop"
             ELSE /\ j' = j
                  /\ pc' = IF PoolAfter(i, Len(cfg.channels)) THEN "pool" ELSE "final_conv"
    /\ UNCHANGED <<caller, args, err, closure, cfg, i, shape, downloads, calls, prevNames>>

\* maxpool2d between stage i and stage i + 1
Pool ==
    /\ pc = "pool"
    /\ graph' = Append(graph, Op("maxpool2d", PoolName(i), i + 1, 0, in_channels,
                                 in_channels, PoolSize, 0, FALSE, size, MaxPoolOut(size)))
    /\ size' = MaxPoolOut(size)
    /\ IF i + 1 < Len(cfg.channels)
       THEN /\ i' = i + 1
            /\ j' = 0
            /\ pc' = "loop"
       ELSE /\ i' = i
            /\ j' = j
            /\ pc' = "final_conv"
    /\ UNCHANGED <<caller, args, err, closure, cfg, in_channels, shape, params,
                   downloads, calls, prevNames>>

\* the classifier: conv2d(in_channels -> classes, kernel_size=1)
FinalConv ==
    /\ pc = "final_conv"
    /\ LET out == ConvOut(size, 1, Conv2dDefaultPadding) IN
       /\ graph' = Append(graph, Op("conv2d", "output/final_conv", 0, 0, in_channels,
                                    cfg.classes, 1, Conv2dDefaultPadding,
                                    Conv2dDefaultUseBias, size, out))
       /\ size' = out
    /\ params' = params + ConvParams(in_channels, cfg.classes, 1, Conv2dDefaultUseBias)
    /\ pc' = "final_activ"
    /\ UNCHANGED <<caller, args, err, closure, cfg, i, j, in_channels, shape,
                   downloads, calls, prevNames>>

\* if cls_activ: leaky_relu
FinalActiv ==
    /\ pc = "final_activ"
    /\ graph' = IF cfg.cls_activ
                THEN Append(graph, Op("leaky_relu", "output/final_activ", 0, 0,
                                      cfg.classes, cfg.classes, 0, 0, FALSE, size, size))
                ELSE graph
    /\ pc' = "final_pool"
    /\ UNCHANGED <<caller, args, err, closure, cfg, i, j, in_channels, size, shape,
                   params, downloads, calls, prevNames>>

\* tf.layers.average_pooling2d(pool_size=avg_pool_size, strides=1)
FinalPool ==
    /\ pc = "final_pool"
    /\ graph' = Append(graph, Op("average_pooling2d", "output/final_pool", 0, 0,
                                 cfg.classes, cfg.classes, cfg.avg_pool_size, 0, FALSE,
                                 size, AvgPoolOut(size, cfg.avg_pool_size)))
    /\ size' = AvgPoolOut(size, cfg.avg_pool_size)
    /\ pc' = "flatten"
    /\ UNCHANGED <<caller, args, err, closure, cfg, i, j, in_channels, shape,
                   params, downloads, calls, prevNames>>

\* tf.layers.flatten(x); return x
Flatten ==
    /\ pc = "flatten"
    /\ graph' = Append(graph, Op("flatten", "", 0, 0, cfg.classes,
                                 cfg.classes * size * size, 0, 0, FALSE, size, 1))
    /\ shape' = <<TestBatch, cfg.classes * size * size>>
    /\ pc' = IF caller = "get_darknet" THEN "net_tail" ELSE "returned"
    /\ UNCHANGED <<caller, args, err, closure, cfg, i, j, in_channels, size,
                   params, downloads, calls, prevNames>>

\* the rest of net_lambda after darknet() returned
NetTail ==
    /\ pc = "net_tail"
    /\ IF ShouldDownload(closure[1].pretrained)
       THEN /\ graph' = Append(graph, Op("download_model", "", 0, 0, 0, 0, 0, 0,
                                         FALSE, 0, 0))
            /\ downloads' = downloads + 1
       ELSE UNCHANGED <<graph, downloads>>
    /\ pc' = "returned"
    /\ UNCHANGED <<caller, args, err, closure, cfg, i, j, in_channels, size, shape,
                   params, calls, prevNames>>

\* tf.reset_default_graph() between two invocations of the callable
ResetGraph ==
    /\ pc = "returned"
    /\ caller = "get_darknet"
    /\ prevNames' = << Names(graph) >>
    /\ graph' = << >>
    /\ params' = 0
    /\ pc' = "ready"
    /\ UNCHANGED <<caller, args, err, closure, cfg, i, j, in_channels, size, shape,
                   downloads, calls>>

Next ==
    \/ pc = "idle" /\ \E v \in Versions, m \in ModelNames, p \in BOOLEAN,
                          ic \in KwInChannels, cl \in KwClasses :
                          GetDarknet(v, m, p, [in_channels |-> ic, classes |-> cl])
    \/ pc = "ready" /\ \E x \in InputSizes : NetLambda(x)
    \/ pc = "idle" /\ \E t \in ChannelTables, o \in BOOLEAN, a \in BOOLEAN :
                          DarknetDirect(t, o, a)
    \/ Unit
    \/ Pool
    \/ FinalConv
    \/ FinalActiv
    \/ FinalPool
    \/ Flatten
    \/ NetTail
    \/ ResetGraph

Spec == Init /\ [][Next]_vars

\* ------------------------------------------------- readings of the graph
IsUnitConv(o) == o.kind = "conv2d" /\ o.stage > 0
IsFinalConv(o) == o.kind = "conv2d" /\ o.stage = 0
IsPointwiseOp(o) == o.k = 1 /\ o.pad = 0
IsSpatialOp(o) == o.k = 3 /\ o.pad = 1
StageLen(s) == Len(cfg.channels[s])
NumStages == Len(cfg.channels)
UnitConvs == SelectSeq(graph, IsUnitConv)
CountKind(kind) == Cardinality({k \in DOMAIN graph : graph[k].kind = kind})
LoopDone == pc \in {"final_conv", "final_activ", "final_pool", "flatten",
                    "net_tail", "returned"}
KnownVersions == {"ref", "tiny", "19"}

\* ---------------------------------------------------------------- C1
\* C1 as stated: in every stage with more than one unit, odd_pointwise =
\* false makes the units at odd 1-based positions pointwise and those at even
\* positions spatial, and odd_pointwise = true inverts that.
C1_AsStated ==
    \A k \in DOMAIN graph :
        (IsUnitConv(graph[k]) /\ StageLen(graph[k].stage) > 1) =>
            LET odd == graph[k].unit % 2 = 1 IN
            IF cfg.odd_pointwise
            THEN (odd => IsSpatialOp(graph[k])) /\ (~ odd => IsPointwiseOp(graph[k]))
            ELSE (odd => IsPointwiseOp(graph[k])) /\ (~ odd => IsSpatialOp(graph[k]))

\* C1 amended: in every stage with more than one unit, odd_pointwise = true
\* makes the units at odd 1-based positions pointwise and those at even
\* positions spatial; odd_pointwise = false makes the odd positions spatial
\* and the even positions pointwise.
C1_OddPointwiseMeansOddUnitsPointwise ==
    \A k \in DOMAIN graph :
        (IsUnitConv(graph[k]) /\ StageLen(graph[k].stage) > 1) =>
            LET odd == graph[k].unit % 2 = 1 IN
            IF cfg.odd_pointwise
            THEN (odd => IsPointwiseOp(graph[k])) /\ (~ odd => IsSpatialOp(graph[k]))
            ELSE (odd => IsSpatialOp(graph[k])) /\ (~ odd => IsPointwiseOp(graph[k]))

\* a finished assembly with odd_pointwise = false whose multi-unit stage has
\* a spatial first unit, a pointwise second unit and a spatial third unit
C1_Witness ==
    /\ pc = "returned"
    /\ ~ cfg.odd_pointwise
    /\ \E a, b, c \in DOMAIN graph :
          /\ IsUnitConv(graph[a]) /\ IsUnitConv(graph[b]) /\ IsUnitConv(graph[c])
          /\ graph[a].stage = graph[b].stage /\ graph[b].stage = graph[c].stage
          /\ graph[a].unit = 1 /\ graph[b].unit = 2 /\ graph[c].unit = 3
          /\ IsSpatialOp(graph[a]) /\ IsPointwiseOp(graph[b]) /\ IsSpatialOp(graph[c])

\* ---------------------------------------------------------------- C2
\* C2: for every stage, every unit and both values of odd_pointwise, the
\* unit is pointwise (kernel 1, padding 0) iff its stage has more than one
\* unit and its 1-based position is odd exactly when odd_pointwise is set;
\* otherwise it is spatial (kernel 3, padding 1).  A stage of one unit is
\* always spatial.
C2_PointwiseIff ==
    \A k \in DOMAIN graph :
        IsUnitConv(graph[k]) =>
            LET o == graph[k]
                jj == o.unit - 1
                oddPos == (jj + 1) % 2 = 1
                expected == StageLen(o.stage) > 1
                            /\ ~ ((oddPos /\ ~ cfg.odd_pointwise)
                                  \/ (~ oddPos /\ cfg.odd_pointwise))
            IN /\ IsPointwiseOp(o) <=> expected
               /\ IsSpatialOp(o) <=> ~ expected
               /\ StageLen(o.stage) = 1 => IsSpatialOp(o)

\* a finished assembly with odd_pointwise = true that has a one-unit stage
\* (spatial in spite of the flag) and a pointwise unit in a longer stage
C2_Witness ==
    /\ pc = "returned"
    /\ cfg.odd_pointwise
    /\ \E a, b \in DOMAIN graph :
          /\ IsUnitConv(graph[a]) /\ StageLen(graph[a].stage) = 1
          /\ IsSpatialOp(graph[a])
          /\ IsUnitConv(graph[b]) /\ StageLen(graph[b].stage) > 1
          /\ IsPointwiseOp(graph[b])

\* ---------------------------------------------------------------- C3
\* C3: with in_channels = 3 and classes = 1000 one assembly registers
\* exactly 7,319,416 trainable parameters for 'ref', 1,042,104 for 'tiny'
\* and 20,842,376 for '19'.
C3_ParamCounts ==
    (/\ caller = "get_darknet"
     /\ pc \in {"net_tail", "returned"}
     /\ cfg.in_channels = 3
     /\ cfg.classes = 1000) =>
        /\ args.version = "ref" => params = 7319416
        /\ args.version = "tiny" => params = 1042104
        /\ args.version = "19" => params = 20842376

\* the tiny preset assembled with the default in_channels and classes
C3_Witness ==
    /\ caller = "get_darknet"
    /\ pc = "returned"
    /\ args.version = "tiny"
    /\ cfg.in_channels = 3
    /\ cfg.classes = 1000
    /\ params = 1042104

\* ---------------------------------------------------------------- C4
RECURSIVE HalveTimes(_, _)
HalveTimes(n, times) == IF times = 0 THEN n ELSE HalveTimes(n \div 2, times - 1)

\* C4: for each preset and a 224x224 input the extent reaching the final
\* average pooling is 224 halved (with floor) once per inter-stage pool and
\* equals the preset's avg_pool_size, the pooling yields a 1x1 map, and the
\* flattened output of a batch of 1 has shape (1, 1000).
C4_OutputShape ==
    (caller = "get_darknet" /\ Len(graph) > 0 /\ graph[1].inSize = TestInputSize) =>
        /\ \A k \in DOMAIN graph :
              graph[k].kind = "average_pooling2d" =>
                 /\ graph[k].inSize = HalveTimes(TestInputSize, NumStages - 1)
                 /\ graph[k].inSize = cfg.avg_pool_size
                 /\ graph[k].outSize = 1
        /\ (pc = "returned" /\ cfg.classes = 1000) => shape = <<1, 1000>>

\* the ref preset (six pools, 224 -> 3) returned for a 224x224 input
C4_Witness ==
    /\ caller = "get_darknet"
    /\ pc = "returned"
    /\ args.version = "ref"
    /\ graph[1].inSize = TestInputSize
    /\ cfg.classes = 1000
    /\ shape = <<1, 1000>>
    /\ \E k \in DOMAIN graph :
          graph[k].kind = "average_pooling2d" /\ graph[k].inSize = 3

\* ---------------------------------------------------------------- C5
IsLastUnitActiv(o) ==
    o.kind = "leaky_relu" /\ o.stage > 0 /\ o.unit = StageLen(o.stage)

\* C5: one run of darknet() over a table of S stages emits exactly S-1
\* max-pooling operations (2x2, stride 2): one right after the last unit of
\* every non-last stage and before the first unit of the next stage, none
\* after the last stage, none inside a stage, none before the first stage.
C5_PoolsBetweenStages ==
    /\ \A k \in DOMAIN graph :
          graph[k].kind = "maxpool2d" =>
             /\ graph[k].k = 2
             /\ graph[k].outSize = graph[k].inSize \div 2
             /\ graph[k].stage < NumStages
             /\ k > 1
             /\ IsLastUnitActiv(graph[k - 1])
             /\ graph[k - 1].stage = graph[k].stage
             /\ k < Len(graph) =>
                   /\ IsUnitConv(graph[k + 1])
                   /\ graph[k + 1].stage = graph[k].stage + 1
                   /\ graph[k + 1].unit = 1
    /\ \A k \in DOMAIN graph :
          (IsLastUnitActiv(graph[k]) /\ graph[k].stage < NumStages /\ k < Len(graph))
             => graph[k + 1].kind = "maxpool2d"
    /\ \A k \in DOMAIN graph :
          (IsUnitConv(graph[k]) /\ graph[k].unit = 1 /\ graph[k].stage > 1)
             => graph[k - 1].kind = "maxpool2d"
    /\ LoopDone => CountKind("maxpool2d") = NumStages - 1

\* a finished run over seven stages with its six pools
C5_Witness ==
    /\ pc = "returned"
    /\ NumStages = 7
    /\ CountKind("maxpool2d") = 6

\* ---------------------------------------------------------------- C6
\* C6: get_darknet with a version other than 'ref', 'tiny', '19' fails with
\* a ValueError before any operation is emitted, any parameter registered
\* or any weight downloaded, and returns no callable, whatever pretrained
\* and model_name are.
C6_UnknownVersionRaises ==
    (caller = "get_darknet" /\ args.version \notin KnownVersions) =>
        /\ pc = "raised"
        /\ err = "ValueError: version"
        /\ closure = << >>
        /\ graph = << >>
        /\ params = 0
        /\ downloads = 0
        /\ calls = 0

\* an unknown version given together with pretrained and a proper name
C6_Witness ==
    /\ pc = "raised"
    /\ args.version = "53"
    /\ args.pretrained
    /\ args.model_name = "darknet"
    /\ err = "ValueError: version"

\* ---------------------------------------------------------------- C7
\* C7: with a recognized version, pretrained = true and a missing model
\* name (None or the empty string) get_darknet fails with a ValueError: no
\* callable, no operation, no download; with pretrained = false the same
\* missing name is accepted and a callable is returned.
C7_MissingNameRaises ==
    (/\ caller = "get_darknet"
     /\ args.version \in KnownVersions
     /\ args.model_name \in {None, ""}) =>
        IF args.pretrained
        THEN /\ pc = "raised"
             /\ err = "ValueError: model_name"
             /\ closure = << >>
             /\ graph = << >>
             /\ params = 0
             /\ downloads = 0
             /\ calls = 0
        ELSE /\ pc # "raised"
             /\ err = ""
             /\ closure # << >>

\* pretrained weights requested under the empty name for a known version
C7_Witness ==
    /\ pc = "raised"
    /\ args.version = "19"
    /\ args.pretrained
    /\ args.model_name = ""
    /\ err = "ValueError: model_name"

\* ---------------------------------------------------------------- C8
\* C8: channel counts chain without gaps: the first unit reads the
\* configured in_channels, every later unit reads the out_channels of the
\* unit built right before it (across stage boundaries too, pooling keeps
\* the channels), every unit writes table[i][j], and the classifier reads
\* the out_channels of the last unit of the last stage.
C8_ChannelsChain ==
    /\ \A k \in DOMAIN UnitConvs :
          /\ UnitConvs[k].inC = IF k = 1 THEN cfg.in_channels ELSE UnitConvs[k - 1].outC
          /\ UnitConvs[k].outC = cfg.channels[UnitConvs[k].stage][UnitConvs[k].unit]
    /\ \A k \in DOMAIN graph :
          graph[k].kind = "maxpool2d" =>
              /\ graph[k].inC = graph[k - 1].outC
              /\ graph[k].outC = graph[k].inC
    /\ \A k \in DOMAIN graph :
          IsFinalConv(graph[k]) =>
              /\ graph[k].inC = UnitConvs[Len(UnitConvs)].outC
              /\ graph[k].inC = cfg.channels[NumStages][StageLen(NumStages)]
              /\ graph[k].outC = cfg.classes

\* the 19 preset built for one input channel: 1 -> 32 -> 64 -> ... -> 1024
C8_Witness ==
    /\ pc = "returned"
    /\ args.version = "19"
    /\ cfg.in_channels = 1
    /\ Len(UnitConvs) = 18
    /\ UnitConvs[1].inC = 1
    /\ UnitConvs[3].inC = 64
    /\ \E k \in DOMAIN graph : IsFinalConv(graph[k]) /\ graph[k].inC = 1024

\* ---------------------------------------------------------------- C9
RECURSIVE UnitsUpTo(_)
UnitsUpTo(s) == IF s = 0 THEN 0 ELSE StageLen(s) + UnitsUpTo(s - 1)
TotalUnits == UnitsUpTo(NumStages)

\* C9: get_darknet itself never calls download_model; each invocation of
\* the callable calls it exactly once if pretrained is true and never if it
\* is false, and only after the whole graph assembly of that invocation
\* (all units, pools and the classification head) has completed.
C9_DownloadDeferred ==
    /\ calls = 0 => downloads = 0
    /\ caller = "direct" => downloads = 0
    /\ caller = "get_darknet" /\ pc \notin {"raised", "idle"} =>
          LET done == IF pc \in {"returned", "ready"} THEN calls ELSE calls - 1 IN
          /\ downloads = IF args.pretrained THEN done ELSE 0
          /\ pc = "returned" =>
                CountKind("download_model") = IF args.pretrained THEN 1 ELSE 0
    /\ \A k \in DOMAIN graph :
          graph[k].kind = "download_model" =>
             /\ k = Len(graph)
             /\ k > 1
             /\ graph[k - 1].kind = "flatten"
             /\ Len(UnitConvs) = TotalUnits
             /\ CountKind("maxpool2d") = NumStages - 1
             /\ CountKind("average_pooling2d") = 1
             /\ \E f \in DOMAIN graph : IsFinalConv(graph[f])

\* the second invocation of a pretrained callable has returned: two
\* downloads in all, one of them in this graph, after the flatten
C9_Witness ==
    /\ pc = "returned"
    /\ args.pretrained
    /\ calls = 2
    /\ downloads = 2
    /\ graph[Len(graph)].kind = "download_model"

\* --------------------------------------------------------------- C10
\* C10: within one run no scope name is written twice (unit scopes with
\* their /conv, /bn, /activ children, pool scopes and head scopes are
\* pairwise distinct), and the names depend on the positions only, so two
\* assemblies of the same configuration write the same sequence of names.
C10_NamesUniqueAndReproducible ==
    LET n == Names(graph) IN
    /\ \A a, b \in DOMAIN n : a # b => n[a] # n[b]
    /\ Len(n) = Len(graph) - CountKind("flatten") - CountKind("download_model")
    /\ (pc = "returned" /\ prevNames # << >>) => n = prevNames[1]

\* the second assembly of the tiny preset, with the names of the first
C10_Witness ==
    /\ pc = "returned"
    /\ args.version = "tiny"
    /\ prevNames # << >>
    /\ Names(graph) = prevNames[1]
    /\ \E k \in DOMAIN graph : graph[k].name = "features/stage5/unit5/activ"
    /\ \E k \in DOMAIN graph : graph[k].name = "features/pool4"

====
